---- MODULE Spec2Model ----
(***************************************************************************)
(* The financial engine of app.py (calculate_monthly_pnl, process_state)   *)
(* and the per-scenario driver that runs it: the 12-month display loop,    *)
(* the 240-month payback search and the three summary metrics.             *)
(*                                                                         *)
(* Numbers.  The program computes in binary floating point.  The model     *)
(* computes the same expressions exactly, in fixed point:                  *)
(*   - money is an integer number of fifths of a cent (Cent units = 0.01); *)
(*   - sales volume is an integer number of 1/VolUnit pax;                 *)
(*   - the scenario multipliers, the seasonal index and the percentages    *)
(*     are integer numerators over VolDen, SeasonDen, FixedDen, PctDen     *)
(*     and RepayDen.                                                       *)
(* Every division in the model is exact on the inputs Init draws (the      *)
(* predicates ExactPnl / ExactConfig select them), except the one the      *)
(* program itself performs: round(_, 2), modelled by Round2.  With fifths  *)
(* of a cent no amount lies halfway between two cents, so the value the    *)
(* program rounds is never within float error of a rounding boundary.      *)
(***************************************************************************)
EXTENDS Integers, Sequences, FiniteSets, TLC

VARIABLES
    config,                 \* the sidebar configuration (line 55)
    custom_seasonal_index,  \* the 12 monthly multipliers (line 70)
    scen,                   \* position of the scenario loop (line 80)
    pc,                     \* where the script is
    debt, cash, history, m, \* the display loop's locals (lines 82-98)
    pnl,                    \* the last calculate_monthly_pnl call and result
    roi_m, rd, rc, m_long,  \* the payback search's locals (lines 103-111)
    metrics,                \* what the three st.metric calls showed (115-117)
    call,                   \* the last process_state call: arguments and result
    trail                   \* rd, rc after each month the payback search ran

vars == <<config, custom_seasonal_index, scen, pc, debt, cash, history, m, pnl,
          roi_m, rd, rc, m_long, metrics, call, trail>>

----------------------------------------------------------------------------
(* Units *)

Cent == 5            \* money units in 0.01: what round(_, 2) rounds to
VolDen == 20         \* "vol" multipliers 1.0, 0.8, 0.75 are n / VolDen
SeasonDen == 10      \* seasonal indices move in steps of 0.1
FixedDen == 10       \* "fixed" multipliers 1.0, 1.1 are n / FixedDen
PctDen == 100        \* COGS fractions are n / PctDen
RepayDen == 5        \* repayment fractions are n / RepayDen
VolUnit == VolDen * SeasonDen      \* volume units in one pax

Money(cents) == cents * Cent

Max2(a, b) == IF a >= b THEN a ELSE b
Min2(a, b) == IF a <= b THEN a ELSE b
Min3(a, b, c) == Min2(a, Min2(b, c))

\* (x * y) \div d, computed without the intermediate product x * y.
MulDiv(x, y, d) == (x \div d) * y + ((x % d) * y) \div d
MulMod(x, y, d) == ((x % d) * y) % d

----------------------------------------------------------------------------
(* 1. Core engine *)

SCENARIO_MODIFIERS ==
    << [name |-> "AS_IS",    vol |-> 20, fixed |-> 10, cogs_adj |-> 0],
       [name |-> "STRESS",   vol |-> 16, fixed |-> 11, cogs_adj |-> 0],
       [name |-> "BLUE_SKY", vol |-> 20, fixed |-> 10, cogs_adj |-> -10],
       [name |-> "REALITY",  vol |-> 15, fixed |-> 10, cogs_adj |-> 0] >>

\* Lines 25-26: the capacity ceiling and the clamped volume (in 1/VolUnit pax).
MaxVol(c) == c.max_daily_capacity * c.operating_days

\* Faulty variant: the capacity ceiling is forgotten.
ClampVolNoCeiling(raw, max_vol) == Max2(0, raw)

ClampVol(raw, max_vol) == Max2(0, Min2(raw, max_vol * VolUnit))

\* Faulty variant: the cost of goods is left out of the profit.
calculate_monthly_pnl_no_cogs(c, mods, s_index) ==
    LET max_vol  == MaxVol(c)
        vol      == ClampVol(max_vol * mods.vol * s_index, max_vol)
        fixed    == (c.fixed_costs * mods.fixed) \div FixedDen
        rev      == MulDiv(vol, c.arpu_base, VolUnit)
    IN  [vol |-> vol, rev |-> rev, prof |-> rev - fixed]

calculate_monthly_pnl(c, mods, s_index) ==
    LET max_vol  == MaxVol(c)
        vol      == ClampVol(max_vol * mods.vol * s_index, max_vol)
        fixed    == (c.fixed_costs * mods.fixed) \div FixedDen
        cogs_pct == c.cogs_base_pct + mods.cogs_adj
        rev      == MulDiv(vol, c.arpu_base, VolUnit)
        prof     == rev - (fixed + ((rev * cogs_pct) \div PctDen))
    IN  [vol |-> vol, rev |-> rev, prof |-> prof]

\* The divisions of calculate_monthly_pnl leave no remainder, and the profit
\* is a whole number of cents (so that prof * repay_pct is exact too).
ExactPnl(c, mods, s_index) ==
    LET max_vol == MaxVol(c)
        vol     == ClampVol(max_vol * mods.vol * s_index, max_vol)
        rev     == MulDiv(vol, c.arpu_base, VolUnit)
        r       == calculate_monthly_pnl(c, mods, s_index)
    IN  /\ (c.fixed_costs * mods.fixed) % FixedDen = 0
        /\ MulMod(vol, c.arpu_base, VolUnit) = 0
        /\ (rev * (c.cogs_base_pct + mods.cogs_adj)) % PctDen = 0
        /\ r.prof % Cent = 0

\* Python's round(x, 2): to the nearest cent, a tie to the even cent.
Round2(x) ==
    LET r  == x % Cent
        lo == x - r
    IN  IF 2 * r < Cent THEN lo
        ELSE IF 2 * r > Cent THEN lo + Cent
        ELSE IF (lo \div Cent) % 2 = 0 THEN lo ELSE lo + Cent

\* Faulty variant: the repayment is not capped by the remaining debt.
RepaymentNoDebtCap(prof, cash_bal, debt_rem, repay_pct) ==
    IF prof > 0 /\ debt_rem > 0
    THEN LET available_cash == cash_bal + prof
         IN  IF available_cash > 0
             THEN Max2(0, Min2((prof * repay_pct) \div RepayDen,
                               available_cash))
             ELSE 0
    ELSE 0

\* Faulty variant: the repayment is not capped by the cash available.
RepaymentNoCashCap(prof, cash_bal, debt_rem, repay_pct) ==
    IF prof > 0 /\ debt_rem > 0
    THEN Max2(0, Min2((prof * repay_pct) \div RepayDen, debt_rem))
    ELSE 0

\* Lines 34-39: the month's repayment.
Repayment(prof, cash_bal, debt_rem, repay_pct) ==
    IF prof > 0 /\ debt_rem > 0
    THEN LET available_cash == cash_bal + prof
         IN  IF available_cash > 0
             THEN LET potential_repay == (prof * repay_pct) \div RepayDen
                  IN  Max2(0, Min3(potential_repay, debt_rem, available_cash))
             ELSE 0
    ELSE 0

\* Faulty variant: the balance is not rounded to cents.
NewCashUnrounded(prof, cash_bal, m_repay) == cash_bal + (prof - m_repay)

\* Line 42: the new cash balance.
NewCash(prof, cash_bal, m_repay) == Round2(cash_bal + (prof - m_repay))

\* Faulty variant: the repayment is returned but not taken off the debt.
process_state_keeps_debt(prof, cash_bal, debt_rem, repay_pct) ==
    LET m_repay == Repayment(prof, cash_bal, debt_rem, repay_pct)
    IN  [m_repay |-> m_repay, new_debt |-> debt_rem,
         new_cash |-> NewCash(prof, cash_bal, m_repay)]

process_state(prof, cash_bal, debt_rem, repay_pct) ==
    LET m_repay  == Repayment(prof, cash_bal, debt_rem, repay_pct)
        new_debt == debt_rem - m_repay
        new_cash == NewCash(prof, cash_bal, m_repay)
    IN  [m_repay |-> m_repay, new_debt |-> new_debt, new_cash |-> new_cash]

----------------------------------------------------------------------------
(* 2. The script: sidebar inputs and the scenario loop *)

months_names ==
    <<"Jan", "Feb", "Mar", "Apr", "May", "Jun",
      "Jul", "Aug", "Sep", "Oct", "Nov", "Dec">>

default_indices == <<11, 11, 10, 7, 9, 12, 10, 10, 8, 9, 11, 12>>

DisplayMonths == 12      \* range(1, 13)
PaybackMonths == 240     \* range(1, 241)

\* The sidebar's default configuration (lines 55-63).
DefaultConfig ==
    [capital |-> Money(2000000), fixed_costs |-> Money(400000),
     max_daily_capacity |-> 100, operating_days |-> 26,
     arpu_base |-> Money(890), cogs_base_pct |-> 50,
     repayment_percentage |-> RepayDen]

\* Bounds of the configurations explored besides the default one.
MaxCapitalSteps == 2
MaxFixedSteps == 3
CapitalStep == Money(7500)
FixedStep == Money(2400)

SmallConfigs ==
    [capital : {k * CapitalStep : k \in 0..MaxCapitalSteps},
     fixed_costs : {k * FixedStep : k \in 0..MaxFixedSteps},
     max_daily_capacity : {10}, operating_days : {2},
     arpu_base : {Money(500)}, cogs_base_pct : {52},
     repayment_percentage : 0..RepayDen]

\* A second setting of the twelve sliders, with months at 0.0 and at 2.0.
uneven_indices == <<0, 20, 5, 13, 10, 0, 20, 7, 15, 3, 12, 9>>

SeasonalChoices == {default_indices, uneven_indices}

ExactConfig(c, seasonal) ==
    \A i \in 1..Len(SCENARIO_MODIFIERS) : \A j \in 1..Len(seasonal) :
        ExactPnl(c, SCENARIO_MODIFIERS[i], seasonal[j])

\* The value of a local no statement has assigned yet: no amount of money
\* (the debt is never negative, the cash is whole cents) and no month.
Unbound == -1
NoRoi == [text |-> "unbound", months |-> 0]
Unviable == [text |-> "UNVIABLE", months |-> 0]
Months(n) == [text |-> "Months", months |-> n]
NoCall ==
    [loop |-> "none", prof |-> 0, cash_bal |-> 0, debt_rem |-> 0,
     repay_pct |-> 0, m_repay |-> 0, new_debt |-> 0, new_cash |-> 0]
NoPnl == [scenario |-> "none", s_index |-> 0, vol |-> 0, rev |-> 0, prof |-> 0]

CallOf(loop, prof, cash_bal, debt_rem, repay_pct) ==
    LET r == process_state(prof, cash_bal, debt_rem, repay_pct)
    IN  [loop |-> loop, prof |-> prof, cash_bal |-> cash_bal,
         debt_rem |-> debt_rem, repay_pct |-> repay_pct,
         m_repay |-> r.m_repay, new_debt |-> r.new_debt,
         new_cash |-> r.new_cash]

PnlOf(c, mods, s_index) ==
    LET r == calculate_monthly_pnl(c, mods, s_index)
    IN  [scenario |-> mods.name, s_index |-> s_index,
         vol |-> r.vol, rev |-> r.rev, prof |-> r.prof]

\* The script has read the sidebar and is about to enter the scenario loop:
\* none of the loop's locals is bound yet.
InitLocals ==
    /\ scen = 1
    /\ debt = Unbound /\ cash = Unbound /\ history = <<>> /\ m = Unbound
    /\ pnl = NoPnl
    /\ roi_m = NoRoi /\ rd = Unbound /\ rc = Unbound /\ m_long = Unbound
    /\ metrics = <<>>
    /\ call = NoCall
    /\ trail = <<>>

Init ==
    /\ \/ /\ config \in SmallConfigs
          /\ custom_seasonal_index \in SeasonalChoices
       \/ /\ config = DefaultConfig
          /\ custom_seasonal_index = default_indices
    /\ ExactConfig(config, custom_seasonal_index)
    /\ pc = "scenario"
    /\ InitLocals

mods == SCENARIO_MODIFIERS[scen]

\* The seasonal index of month n, custom_seasonal_index[(n-1) % 12].
SeasonOf(n) == custom_seasonal_index[((n - 1) % 12) + 1]

\* Lines 80-83: a scenario's tab opens.
ScenarioStart ==
    /\ pc = "scenario"
    /\ debt' = config.capital
    /\ cash' = 0
    /\ history' = <<>>
    /\ m' = 1
    /\ pc' = "display"
    /\ UNCHANGED <<config, custom_seasonal_index, scen, pnl, roi_m, rd, rc,
                   m_long, metrics, call, trail>>

\* Lines 85-98: one month of the display loop.
DisplayMonth ==
    /\ pc = "display"
    /\ LET p == PnlOf(config, mods, SeasonOf(m))
           r == CallOf("display", p.prof, cash, debt,
                       config.repayment_percentage)
       IN  /\ pnl' = p
           /\ call' = r
           /\ debt' = r.new_debt
           /\ cash' = r.new_cash
           /\ history' = Append(history,
                  [Month |-> months_names[m],
                   SalesPax |-> p.vol \div VolUnit,
                   Revenue |-> p.rev,
                   NetProfit |-> p.prof,
                   MonthlyRepay |-> r.m_repay,
                   TotalRepaid |-> config.capital - r.new_debt,
                   CashInHand |-> r.new_cash])
    /\ IF m < DisplayMonths
       THEN m' = m + 1 /\ pc' = "display"
       ELSE m' = m /\ pc' = "roi"
    /\ UNCHANGED <<config, custom_seasonal_index, scen, roi_m, rd, rc,
                   m_long, metrics, trail>>

\* Faulty variant: the payback search goes on from the display loop's final state.
RoiInitShared ==
    /\ pc = "roi"
    /\ roi_m' = Unviable
    /\ rd' = debt
    /\ rc' = cash
    /\ m_long' = 1
    /\ trail' = <<>>
    /\ pc' = "payback"
    /\ UNCHANGED <<config, custom_seasonal_index, scen, debt, cash, history,
                   m, pnl, metrics, call>>

\* Faulty variant: the payback search starts with the display loop's final cash.
RoiInitKeepsCash ==
    /\ pc = "roi"
    /\ roi_m' = Unviable
    /\ rd' = config.capital
    /\ rc' = cash
    /\ m_long' = 1
    /\ trail' = <<>>
    /\ pc' = "payback"
    /\ UNCHANGED <<config, custom_seasonal_index, scen, debt, cash, history,
                   m, pnl, metrics, call>>

\* Lines 103-104: the payback search starts.
RoiInit ==
    /\ pc = "roi"
    /\ roi_m' = Unviable
    /\ rd' = config.capital
    /\ rc' = 0
    /\ m_long' = 1
    /\ trail' = <<>>
    /\ pc' = "payback"
    /\ UNCHANGED <<config, custom_seasonal_index, scen, debt, cash, history,
                   m, pnl, metrics, call>>

\* The payback search's month with a given test for stopping (used by the
\* faulty variants below).
SearchMonthUntil(prof, stop) ==
    /\ pc = "payback"
    /\ LET r == CallOf("payback", prof, rc, rd, config.repayment_percentage)
       IN  /\ call' = r
           /\ rd' = r.new_debt
           /\ rc' = r.new_cash
           /\ IF stop
              THEN /\ roi_m' = Months(m_long)
                   /\ m_long' = m_long
                   /\ pc' = "metrics"
              ELSE /\ roi_m' = roi_m
                   /\ IF m_long < PaybackMonths
                      THEN m_long' = m_long + 1 /\ pc' = "payback"
                      ELSE m_long' = m_long /\ pc' = "metrics"
    /\ UNCHANGED <<config, custom_seasonal_index, scen, debt, cash, history,
                   m, metrics>>

\* Faulty variant: the search stops only when the debt is below zero.
SearchMonthStrict(prof) ==
    SearchMonthUntil(prof,
        process_state(prof, rc, rd, config.repayment_percentage).new_debt < 0)

\* Faulty variant: the search tests the cash balance rc instead of the debt rd.
SearchMonthTestsCash(prof) ==
    SearchMonthUntil(prof,
        process_state(prof, rc, rd, config.repayment_percentage).new_cash <= 0)

\* Lines 108-111: the payback search advances the state by one month with
\* profit prof, and stops at the first month that ends with rd <= 0.
SearchMonth(prof) ==
    /\ pc = "payback"
    /\ LET r == CallOf("payback", prof, rc, rd, config.repayment_percentage)
       IN  /\ call' = r
           /\ rd' = r.new_debt
           /\ rc' = r.new_cash
           /\ IF r.new_debt <= 0
              THEN /\ roi_m' = Months(m_long)
                   /\ m_long' = m_long
                   /\ pc' = "metrics"
              ELSE /\ roi_m' = roi_m
                   /\ IF m_long < PaybackMonths
                      THEN m_long' = m_long + 1 /\ pc' = "payback"
                      ELSE m_long' = m_long /\ pc' = "metrics"
    /\ UNCHANGED <<config, custom_seasonal_index, scen, debt, cash, history,
                   m, metrics>>

\* Lines 105-111: one month of the payback search.
PaybackMonth ==
    /\ pc = "payback"
    /\ pnl' = PnlOf(config, mods, SeasonOf(m_long))
    /\ SearchMonth(pnl'.prof)
    /\ trail' = Append(trail, [debt |-> rd', cash |-> rc'])

\* Lines 113-117, and the scenario loop's next iteration.
ShowMetrics ==
    /\ pc = "metrics"
    /\ metrics' = Append(metrics,
           [scenario |-> mods.name,
            year1_cash |-> cash,
            recovered |-> config.capital - debt,
            payback |-> roi_m])
    /\ IF scen < Len(SCENARIO_MODIFIERS)
       THEN scen' = scen + 1 /\ pc' = "scenario"
       ELSE scen' = scen /\ pc' = "done"
    /\ UNCHANGED <<config, custom_seasonal_index, debt, cash, history, m, pnl,
                   roi_m, rd, rc, m_long, call, trail>>

Next ==
    \/ ScenarioStart
    \/ DisplayMonth
    \/ RoiInit
    \/ PaybackMonth
    \/ ShowMetrics

Spec == Init /\ [][Next]_vars

----------------------------------------------------------------------------
(* 3. calculate_monthly_pnl on its own, for any seasonal index *)

HugeIndex == 10000       \* a seasonal index of 1000.0
SliderMax == 20          \* the sliders stop at 2.0

PnlIndices == 0..SliderMax \cup {HugeIndex}

PnlConfigs ==
    [capital : {Money(7500)}, fixed_costs : {Money(2000), Money(400000)},
     max_daily_capacity : {10, 100}, operating_days : {2, 26},
     arpu_base : {Money(500), Money(890)}, cogs_base_pct : {50},
     repayment_percentage : {RepayDen}]

InitPnl ==
    /\ config \in PnlConfigs
    /\ custom_seasonal_index = default_indices
    /\ pc = "pnl"
    /\ InitLocals

CallPnl ==
    /\ pc = "pnl"
    /\ \E i \in 1..Len(SCENARIO_MODIFIERS) : \E s_index \in PnlIndices :
          /\ ExactPnl(config, SCENARIO_MODIFIERS[i], s_index)
          /\ pnl' = PnlOf(config, SCENARIO_MODIFIERS[i], s_index)
    /\ UNCHANGED <<config, custom_seasonal_index, scen, pc, debt, cash,
                   history, m, roi_m, rd, rc, m_long, metrics, call, trail>>

NextPnl == CallPnl

SpecPnl == InitPnl /\ [][NextPnl]_vars

----------------------------------------------------------------------------
(* 4. The payback search fed any sequence of monthly profits *)

MaxLoss == 1             \* a month loses at most this many cents
MaxGain == 2             \* a month earns at most this many cents
MaxCash == 2             \* cash is kept within this many cents of zero
MaxAnyCapital == 2       \* the principal, in cents

ProfitChoices == {Money(p) : p \in -MaxLoss..MaxGain}

\* The state right after lines 103-104.
InitAny ==
    /\ \E capital \in {0, Money(MaxAnyCapital)} : \E pct \in 0..RepayDen :
          config = [DefaultConfig EXCEPT !.capital = capital,
                                         !.repayment_percentage = pct]
    /\ custom_seasonal_index = default_indices
    /\ scen = 1
    /\ pc = "payback"
    /\ debt = Unbound /\ cash = Unbound /\ history = <<>> /\ m = Unbound
    /\ pnl = NoPnl
    /\ roi_m = Unviable
    /\ rd = config.capital
    /\ rc = 0
    /\ m_long = 1
    /\ metrics = <<>>
    /\ call = NoCall
    /\ trail = <<>>

AnyMonth ==
    /\ \E prof \in ProfitChoices : SearchMonth(prof)
    /\ rc' >= -Money(MaxCash) /\ rc' <= Money(MaxCash)
    /\ UNCHANGED <<pnl, trail>>

NextAny == AnyMonth

SpecAny == InitAny /\ [][NextAny]_vars

----------------------------------------------------------------------------
(* 5. Properties *)

RECURSIVE SumRepay(_, _)
\* The sum of the first k months' repayments in the display history h.
SumRepay(h, k) == IF k = 0 THEN 0 ELSE SumRepay(h, k - 1) + h[k].MonthlyRepay

Abs(x) == IF x >= 0 THEN x ELSE -x

Called == call.loop # "none"

HistoryBound == pc \in {"display", "roi", "payback", "metrics"}

\* C1: in the payback search fed any sequence of monthly profits, from
\* rd = capital >= 0 and rc = 0 with a repayment fraction in [0,1], every
\* month leaves a debt that is not above the debt before it and not below 0.
DebtNeverGrows ==
    /\ rd >= 0
    /\ rd <= config.capital
    /\ Called => /\ call.new_debt <= call.debt_rem
                 /\ call.new_debt >= 0
                 /\ rd = call.new_debt

\* C1 witness: all 240 months ran, some of the debt was repaid, some is left.
DebtPartlyRepaidAfterFullSearch ==
    /\ pc = "metrics"
    /\ m_long = PaybackMonths
    /\ rd > 0
    /\ rd < config.capital
    /\ call.prof < 0

\* C2 as stated: every process_state call returns a repayment that is at
\* most the debt before the call, at most cash_balance + profit, and zero
\* whenever profit <= 0.
RepaymentBoundAsStated ==
    Called => /\ call.m_repay <= call.debt_rem
              /\ call.m_repay <= call.cash_bal + call.prof
              /\ call.prof <= 0 => call.m_repay = 0

\* C2 amended: every process_state call returns a repayment that is at most
\* the debt before the call, zero whenever profit <= 0, and at most
\* max(0, cash_balance + profit): at most the cash available when there is
\* any, and zero when cash_balance + profit is negative.
RepaymentBound ==
    Called => /\ call.m_repay >= 0
              /\ call.m_repay <= call.debt_rem
              /\ call.m_repay <= Max2(0, call.cash_bal + call.prof)
              /\ call.prof <= 0 => call.m_repay = 0

\* C2 witness: a repayment cut down to the cash available, after losses.
RepaymentCappedByCash ==
    /\ Called
    /\ call.cash_bal < 0
    /\ call.m_repay > 0
    /\ call.m_repay = call.cash_bal + call.prof
    /\ call.m_repay < call.debt_rem
    /\ call.m_repay < (call.prof * call.repay_pct) \div RepayDen

\* C3: after any number of months of the display loop, the Total Repaid of
\* each month's record, capital - debt, is the sum of the repayments so far.
TotalRepaidIsSumOfRepayments ==
    HistoryBound =>
        /\ \A k \in 1..Len(history) :
              history[k].TotalRepaid = SumRepay(history, k)
        /\ config.capital - debt = SumRepay(history, Len(history))

\* C3 witness: a year with four or more repayments that leaves some debt.
SeveralRepaymentsMade ==
    /\ HistoryBound
    /\ Len(history) = DisplayMonths
    /\ Cardinality({k \in 1..Len(history) : history[k].MonthlyRepay > 0}) >= 4
    /\ \E k \in 1..Len(history) : history[k].MonthlyRepay = 0
    /\ debt > 0

\* The months 1..n of the search all ended with some debt left.
DebtLeftThrough(n) == \A j \in 1..n : trail[j].debt > 0

\* While the search runs, every month so far left some debt; when it has
\* ended, it reports the first month that left none, or UNVIABLE.
PaybackResultRight ==
    CASE pc = "payback" ->
          /\ roi_m = Unviable
          /\ m_long \in 1..PaybackMonths
          /\ Len(trail) = m_long - 1
          /\ DebtLeftThrough(Len(trail))
      [] pc = "metrics" ->
          /\ roi_m.text \in {"Months", "UNVIABLE"}
          /\ roi_m.text = "Months" =>
                /\ roi_m.months \in 1..PaybackMonths
                /\ Len(trail) = roi_m.months
                /\ trail[roi_m.months].debt <= 0
                /\ DebtLeftThrough(roi_m.months - 1)
          /\ roi_m = Unviable <=>
                (Len(trail) = PaybackMonths /\ DebtLeftThrough(PaybackMonths))
      [] OTHER -> TRUE

\* C4: the payback search runs months 1..240 and always ends (its next
\* month can always run, and each month either ends the search or moves to
\* the next of the 240 months); its result is the first month that ends
\* with debt <= 0, no later month is run, and it is UNVIABLE exactly when
\* all 240 months end with debt > 0.
PaybackSearchFindsFirstMonth ==
    /\ [](PaybackResultRight)
    /\ [](pc = "payback" => ENABLED PaybackMonth)
    /\ [][pc = "payback" =>
            \/ pc' = "metrics"
            \/ pc' = "payback" /\ m_long' = m_long + 1]_vars

\* C4 witness: a search that ran past the display year and then found the
\* month, well before the 240th.
PaybackFoundAfterFirstYear ==
    /\ pc = "metrics"
    /\ roi_m.text = "Months"
    /\ roi_m.months > DisplayMonths
    /\ roi_m.months < PaybackMonths
    /\ Len(trail) = roi_m.months

\* Every one of the 240 months of the current scenario makes a loss.
LosesEveryMonth ==
    \A n \in 1..PaybackMonths :
        calculate_monthly_pnl(config, mods, SeasonOf(n)).prof < 0

\* C5 as stated: for every config with capital >= 0 whose profit is negative
\* in all 240 months, the payback period reported is UNVIABLE.
UnviableWhenAlwaysLosingAsStated ==
    (pc = "metrics" /\ config.capital >= 0 /\ LosesEveryMonth)
        => roi_m = Unviable

\* C5 amended: for every config with capital > 0 whose profit is negative in
\* all 240 months, the payback period reported is UNVIABLE and no month
\* ends with debt <= 0.
UnviableWhenAlwaysLosing ==
    (pc = "metrics" /\ config.capital > 0 /\ LosesEveryMonth)
        => /\ roi_m = Unviable
           /\ Len(trail) = PaybackMonths
           /\ \A j \in 1..Len(trail) : trail[j].debt = config.capital

\* C5 witness: a losing business with a principal, reported UNVIABLE.
LosingBusinessReportedUnviable ==
    /\ pc = "metrics"
    /\ config.capital > 0
    /\ LosesEveryMonth
    /\ roi_m = Unviable

\* C6: whatever the config, the scenario and the seasonal index (up to
\* 1000.0), calculate_monthly_pnl returns 0 <= vol <= capacity * days.
VolumeWithinCapacity ==
    pnl.scenario # "none" =>
        /\ pnl.vol >= 0
        /\ pnl.vol <= MaxVol(config) * VolUnit

\* C6 witness: a seasonal index of 1000.0, volume held at the ceiling.
HugeIndexClamped ==
    /\ pnl.scenario = "REALITY"
    /\ pnl.s_index = HugeIndex
    /\ pnl.vol = MaxVol(config) * VolUnit

\* C7: every process_state call returns as new cash the value
\* cash_balance + profit - repayment rounded to cents: a whole number of
\* cents, at most half a cent away, and that very value when it is whole
\* cents; the loop's cash balance is what the call returned, below zero too.
CashIsRoundedBalance ==
    Called =>
        LET exact == call.cash_bal + call.prof - call.m_repay
        IN  /\ call.new_cash % Cent = 0
            /\ 2 * Abs(call.new_cash - exact) <= Cent
            /\ exact % Cent = 0 => call.new_cash = exact
            /\ call.loop = "display" => cash = call.new_cash
            /\ call.loop = "payback" => rc = call.new_cash

\* C7 witness: a year in which one month's balance had to be rounded and
\* another month ended with cash below zero.
RoundedAndNegativeCash ==
    /\ HistoryBound
    /\ Len(history) = DisplayMonths
    /\ \E k \in 1..Len(history) : history[k].MonthlyRepay % Cent # 0
    /\ \E k \in 1..Len(history) : history[k].CashInHand < 0

FirstMonthOfDefaultRun ==
    /\ config = DefaultConfig
    /\ custom_seasonal_index = default_indices
    /\ scen = 1
    /\ pc = "display"
    /\ m = 2

\* C8: with the default config and indices, month 1 of AS_IS has volume
\* 2600, revenue 23140, profit 7570, repayment 7570, debt 12430, cash 0.00.
DefaultFirstMonth ==
    FirstMonthOfDefaultRun =>
        /\ pnl.vol = 2600 * VolUnit
        /\ pnl.rev = Money(2314000)
        /\ pnl.prof = Money(757000)
        /\ call.m_repay = Money(757000)
        /\ debt = Money(1243000)
        /\ cash = 0
        /\ history = << [Month |-> "Jan", SalesPax |-> 2600,
                         Revenue |-> Money(2314000),
                         NetProfit |-> Money(757000),
                         MonthlyRepay |-> Money(757000),
                         TotalRepaid |-> Money(757000),
                         CashInHand |-> 0] >>

\* C8 witness: that month has run, and its demand was above the capacity.
DefaultFirstMonthRan ==
    /\ FirstMonthOfDefaultRun
    /\ pnl.scenario = "AS_IS"
    /\ MaxVol(config) * mods.vol * pnl.s_index > pnl.vol

\* C9: in every scenario the display loop and the payback search each start
\* from debt = capital, cash = 0, and the payback search leaves the display
\* loop's final debt and cash, the ones the metrics show, as they were.
LoopsStartFreshAndApart ==
    /\ (pc = "display" /\ Len(history) = 0) =>
          debt = config.capital /\ cash = 0
    /\ (pc = "payback" /\ Len(trail) = 0) =>
          rd = config.capital /\ rc = 0
    /\ pc \in {"roi", "payback", "metrics"} =>
          /\ Len(history) = DisplayMonths
          /\ debt = config.capital - history[DisplayMonths].TotalRepaid
          /\ cash = history[DisplayMonths].CashInHand
    /\ (pc \in {"scenario", "done"} /\ Len(metrics) > 0) =>
          /\ metrics[Len(metrics)].year1_cash = cash
          /\ metrics[Len(metrics)].recovered = config.capital - debt

\* C9 witness: a later scenario's payback search about to start, fresh,
\* after a display loop that ended elsewhere and an earlier scenario.
SearchStartsApartFromDisplay ==
    /\ scen > 1
    /\ pc = "payback"
    /\ Len(trail) = 0
    /\ debt # config.capital
    /\ cash # 0
    /\ rd = config.capital
    /\ rc = 0

\* The first display month whose Total Repaid is the whole capital.
FirstRecoveredMonth ==
    CHOOSE k \in 1..Len(history) :
        /\ history[k].TotalRepaid = config.capital
        /\ \A j \in 1..(k - 1) : history[j].TotalRepaid # config.capital

\* C10: the payback search reports p <= 12 months exactly when the display
\* year ends with no debt, p is then the first display month whose Total
\* Repaid is the capital, and month by month through the display year the
\* search's debt and cash are the display loop's.
SummariesAgree ==
    /\ pc \in {"payback", "metrics"} =>
          \A k \in 1..Min2(DisplayMonths, Len(trail)) :
              /\ trail[k].debt = config.capital - history[k].TotalRepaid
              /\ trail[k].cash = history[k].CashInHand
    /\ pc = "metrics" =>
          /\ (roi_m.text = "Months" /\ roi_m.months <= DisplayMonths)
                <=> debt = 0
          /\ debt = 0 => roi_m.months = FirstRecoveredMonth

\* C10 witness: the debt was cleared in the display year, after month 1,
\* with cash below zero on the way, and the search found that month.
SearchAgreesWithinYear ==
    /\ pc = "metrics"
    /\ debt = 0
    /\ config.capital > 0
    /\ roi_m.months > 1
    /\ roi_m.months = FirstRecoveredMonth
    /\ \E k \in 1..roi_m.months : history[k].CashInHand < 0

====
